---- MODULE Spec2Model ----
(***************************************************************************)
(* A model of partfinder/raxml.py: the RAxML command orchestrator          *)
(* (find_program, run_raxml, dupfile, make_topology, make_branch_lengths,  *)
(* analyse, the output naming scheme) and the result parser (Parser).      *)
(*                                                                         *)
(* Text is a sequence of one-character strings.  A label of the report     *)
(* ("Overall Time for Tree Evaluation", "Likelihood:", ...) is one symbol  *)
(* of the text: the grammar only ever matches a label as a whole Literal.  *)
(***************************************************************************)
EXTENDS Integers, Sequences, FiniteSets, TLC

\* ------------------------------------------------------------------------
\* Bounds of the model
\* ------------------------------------------------------------------------

\* the number of labelled fields a generated report holds, at most
MaxFields == 3

\* the number of concurrent callers (threads) of the module
NumCallers == 2

\* the number of orchestration calls started in one run of the process, at most
MaxCalls == 3

\* the number of analyses whose output names are compared, at most
MaxAnalyses == 2

Callers == 1..NumCallers

\* the thread that runs the analysis phases one after the other
MainCaller == 1

VARIABLES
  report,         \* the fields the external tool wrote to its report
  output,         \* the text of that report, as read from the stats file
  result,         \* what parse(text) returned or raised
  pcall,          \* per caller: its call of the_parser.parse in progress
  analyses,       \* the analyses whose output files have been named
  _raxml_binary,  \* the module global: the cached path of the binary, or None
  installed,      \* whether the binary is a file at programs/raxml
  files,          \* the file system: the content of each path that is a file
  call,           \* per caller: its orchestration call in progress
  ncalls,         \* the number of calls started
  nfinds          \* the number of times find_program has run

vars == <<report, output, result, pcall, analyses, _raxml_binary, installed,
          files, call, ncalls, nfinds>>

parseVars == <<report, output, result>>
orchVars == <<_raxml_binary, installed, files, call, ncalls, nfinds>>

\* ------------------------------------------------------------------------
\* The result parser: the grammar of Parser.__init__
\* ------------------------------------------------------------------------

\* pyparsing.nums
nums == {"0", "1", "2", "3", "4", "5", "6", "7", "8", "9"}

\* a word of digits and '.' only: Word(nums + '.')
FloatCharsNoMinus == nums \cup {"."}

\* the characters of FLOAT = Word(nums + '.-')
FloatChars == nums \cup {".", "-"}

\* the characters pyparsing skips before a token (its default whitespace)
White == {" "}

\* LNL_LABEL = (LNL_LABEL_1|LNL_LABEL_2): "Final GAMMA  likelihood:", "Likelihood:"
LNL_LABEL == {"L1", "L2"}

\* TIME_LABEL = (TIME_LABEL_1|TIME_LABEL_2)
TIME_LABEL == {"T1", "T2"}

\* TREE_SIZE_LABEL = Literal("Tree-Length:")
TREE_SIZE_LABEL == {"S"}

Labels == TIME_LABEL \cup LNL_LABEL \cup TREE_SIZE_LABEL

\* the value of "no number": no conversion yields a denominator of 0
NoVal == <<0, 0>>

DigitVal(c) ==
  CASE c = "0" -> 0 [] c = "1" -> 1 [] c = "2" -> 2 [] c = "3" -> 3
    [] c = "4" -> 4 [] c = "5" -> 5 [] c = "6" -> 6 [] c = "7" -> 7
    [] c = "8" -> 8 [] c = "9" -> 9 [] OTHER -> 0

RECURSIVE Normalise(_, _)
\* a decimal fraction num/den (den a power of ten) in lowest decimal terms,
\* so that equal numbers have equal representations: 1.0 = 1, -0 = 0
Normalise(num, den) ==
  IF den > 1 /\ num % 10 = 0 THEN Normalise(num \div 10, den \div 10)
  ELSE <<num, den>>

RECURSIVE Digits2Num(_, _, _, _)
\* reads the characters of s from position i on: acc is the integer made of
\* the digits read so far, den is 10^(digits read after the point), or 0
\* before the point
Digits2Num(s, i, acc, den) ==
  IF i > Len(s) THEN <<acc, IF den = 0 THEN 1 ELSE den>>
  ELSE IF s[i] = "." THEN Digits2Num(s, i + 1, acc, 1)
  ELSE Digits2Num(s, i + 1, 10 * acc + DigitVal(s[i]),
                  IF den = 0 THEN 0 ELSE 10 * den)

\* the strings of FloatChars that Python's float() accepts: an optional
\* leading '-', then digits with at most one '.', at least one digit
FloatOk(tok) ==
  LET body == IF Len(tok) > 0 /\ tok[1] = "-" THEN Tail(tok) ELSE tok
  IN  /\ \A i \in 1..Len(body) : body[i] \in nums \cup {"."}
      /\ Cardinality({i \in 1..Len(body) : body[i] = "."}) <= 1
      /\ \E i \in 1..Len(body) : body[i] \in nums

\* float(x[0]): the number a string denotes, NoVal where float() raises
\* ValueError
Float(tok) ==
  IF ~FloatOk(tok) THEN NoVal
  ELSE LET neg  == tok[1] = "-"
           body == IF neg THEN Tail(tok) ELSE tok
           nd   == Digits2Num(body, 1, 0, 0)
       IN  Normalise(IF neg THEN 0 - nd[1] ELSE nd[1], nd[2])

RECURSIVE SkipWhite(_, _)
\* ParserElement.preParse: the first position at or after loc that holds no
\* whitespace
SkipWhite(text, loc) ==
  IF loc <= Len(text) /\ text[loc] \in White THEN SkipWhite(text, loc + 1)
  ELSE loc

RECURSIVE SkipTo(_, _, _)
\* SkipTo(label): the first position at or after loc where the label
\* matches, 0 when there is none (ParseException)
SkipTo(text, loc, label) ==
  IF loc > Len(text) THEN 0
  ELSE IF text[loc] \in label THEN loc
  ELSE SkipTo(text, loc + 1, label)

RECURSIVE WordEnd(_, _, _)
\* Word(chars): the position after the longest run of chars that starts at loc
WordEnd(text, loc, chars) ==
  IF loc <= Len(text) /\ text[loc] \in chars THEN WordEnd(text, loc + 1, chars)
  ELSE loc

\* FLOAT at loc: skips whitespace, takes the longest run of FloatChars and
\* converts it with float().  status: "ok", "ParseException" (no character of
\* the word at loc), "ValueError" (the parse action raised)
FLOAT(text, loc) ==
  LET start == SkipWhite(text, loc)
      end   == WordEnd(text, start, FloatChars)
      tok   == SubSeq(text, start, end - 1)
  IN  IF end = start THEN [status |-> "ParseException", loc |-> loc, val |-> NoVal]
      ELSE IF ~FloatOk(tok) THEN [status |-> "ValueError", loc |-> end, val |-> NoVal]
      ELSE [status |-> "ok", loc |-> end, val |-> Float(tok)]

\* nextbit(label, val) = Suppress(SkipTo(label)) + (label + FLOAT)
nextbit(text, loc, label) ==
  LET at == SkipTo(text, loc, label)
  IN  IF at = 0 THEN [status |-> "ParseException", loc |-> loc, val |-> NoVal]
      ELSE FLOAT(text, at + 1)

\* the outcomes of Parser.parse
NoResult == [kind |-> "none", lnl |-> NoVal, tree_size |-> NoVal, seconds |-> NoVal]
Raised(exc) == [kind |-> exc, lnl |-> NoVal, tree_size |-> NoVal, seconds |-> NoVal]
raxmlResult(lnl, tree_size, seconds) ==
  [kind |-> "raxmlResult", lnl |-> lnl, tree_size |-> tree_size, seconds |-> seconds]

\* Parser.parse: root_parser.parseString(text), a ParseException turned into
\* RaxmlError, any other exception left to escape
parse(text) ==
  LET secs == nextbit(text, 1, TIME_LABEL)
      lnl  == nextbit(text, secs.loc, LNL_LABEL)
      tree == nextbit(text, lnl.loc, TREE_SIZE_LABEL)
  IN  IF secs.status = "ParseException" THEN Raised("RaxmlError")
      ELSE IF secs.status = "ValueError" THEN Raised("ValueError")
      ELSE IF lnl.status = "ParseException" THEN Raised("RaxmlError")
      ELSE IF lnl.status = "ValueError" THEN Raised("ValueError")
      ELSE IF tree.status = "ParseException" THEN Raised("RaxmlError")
      ELSE IF tree.status = "ValueError" THEN Raised("ValueError")
      ELSE raxmlResult(lnl.val, tree.val, secs.val)

\* ------------------------------------------------------------------------
\* Reports: the texts the parser is run on
\* ------------------------------------------------------------------------

\* what follows a label in a report: a literal, then junk
\*   <<"1">>, <<>>                 1
\*   <<"-","1",".","2">>, " x"     -1.2, then junk after a blank
\*   <<"2","0",".","5">>, "x"      20.5, a letter right after the literal
\*   <<"1",".","2">>, "."          1.2, a full stop right after the literal
\*   <<"1",".","2",".","1">>       a malformed literal
\*   <<"-">>, " x"                 a malformed literal, then junk
\*   <<>>, "x"                     no literal at all
Tails == { [lit |-> <<"1">>, junk |-> <<>>],
           [lit |-> <<"-", "1", ".", "2">>, junk |-> <<" ", "x">>],
           [lit |-> <<"2", "0", ".", "5">>, junk |-> <<"x">>],
           [lit |-> <<"1", ".", "2">>, junk |-> <<".">>],
           [lit |-> <<"1", ".", "2", ".", "1">>, junk |-> <<>>],
           [lit |-> <<"-">>, junk |-> <<" ", "x">>],
           [lit |-> <<>>, junk |-> <<"x">>] }

\* the junk in front of the first label
Lead == <<"x", " ">>

Fields == [label : Labels, tail : Tails]

RECURSIVE Render(_)
\* the text of a report: each label, a blank, its literal and the junk
Render(r) ==
  IF Len(r) = 0 THEN <<>>
  ELSE <<r[1].label, " ">> \o r[1].tail.lit \o r[1].tail.junk \o Render(Tail(r))


\* ------------------------------------------------------------------------
\* The states in which a part of the module is not in use
\* ------------------------------------------------------------------------

\* Python's None where a path is expected (no path is empty)
None == <<>>

\* the tokens and the state of one call of the_parser.parse
IdleParse == [pc |-> "idle", text |-> <<>>, loc |-> 1, tokens |-> NoResult,
              out |-> NoResult]

ParserIdle ==
  /\ report = <<>>
  /\ output = Lead
  /\ result = NoResult

ReentrantIdle == pcall = [c \in Callers |-> IdleParse]

NamesIdle == analyses = {}

\* ------------------------------------------------------------------------
\* parse(text) on the reports of the external tool
\* ------------------------------------------------------------------------

\* the external tool writes one more labelled field to its report
Emit ==
  /\ result = NoResult
  /\ Len(report) < MaxFields
  /\ \E f \in Fields :
       /\ report' = Append(report, f)
       /\ output' = output \o Render(<<f>>)
  /\ UNCHANGED <<result, pcall, analyses, orchVars>>

\* one call of parse(text) on the text of the report
Parse ==
  /\ result = NoResult
  /\ result' = parse(output)
  /\ UNCHANGED <<report, output, pcall, analyses, orchVars>>

\* ------------------------------------------------------------------------
\* the_parser shared by concurrent callers
\* ------------------------------------------------------------------------

\* the reports the concurrent callers parse: two that parse to different
\* results, one with the tree length missing, one with a malformed literal
SampleReports ==
  { << [label |-> "T1", tail |-> [lit |-> <<"1">>, junk |-> <<>>]],
       [label |-> "L2", tail |-> [lit |-> <<"-", "1", ".", "2">>, junk |-> <<" ", "x">>]],
       [label |-> "S",  tail |-> [lit |-> <<"2", "0", ".", "5">>, junk |-> <<"x">>]] >>,
    << [label |-> "T2", tail |-> [lit |-> <<"2", "0", ".", "5">>, junk |-> <<"x">>]],
       [label |-> "L1", tail |-> [lit |-> <<"1">>, junk |-> <<>>]],
       [label |-> "S",  tail |-> [lit |-> <<"-", "1", ".", "2">>, junk |-> <<" ", "x">>]] >>,
    << [label |-> "T1", tail |-> [lit |-> <<"1">>, junk |-> <<>>]],
       [label |-> "L1", tail |-> [lit |-> <<"2", "0", ".", "5">>, junk |-> <<"x">>]] >>,
    << [label |-> "T1", tail |-> [lit |-> <<"1">>, junk |-> <<>>]],
       [label |-> "L1", tail |-> [lit |-> <<"1", ".", "2", ".", "1">>, junk |-> <<>>]],
       [label |-> "S",  tail |-> [lit |-> <<"1">>, junk |-> <<>>]] >> }

\* a position of the text that belongs to another caller's call: what the
\* scan would read if the parser kept its position in the shared instance
SharedPosition(c) == pcall[MainCaller].loc

\* the position in the text at which the call of caller c goes on: a local of
\* the call (parseString threads loc through its own frames)
Position(c) == pcall[c].loc

\* the label a call looks for next
LabelAt(pc) ==
  CASE pc = "seconds" -> TIME_LABEL
    [] pc = "lnl" -> LNL_LABEL
    [] OTHER -> TREE_SIZE_LABEL

\* the_parser.parse(text) is entered by caller c
ParseBegin(c) ==
  /\ pcall[c].pc = "idle"
  /\ \E r \in SampleReports :
       pcall' = [pcall EXCEPT ![c] = [IdleParse EXCEPT !.pc = "seconds",
                                        !.text = Lead \o Render(r)]]
  /\ UNCHANGED <<parseVars, analyses, orchVars>>

\* the next nextbit of root_parser in the call of caller c
ParseStep(c) ==
  LET me  == pcall[c]
      bit == nextbit(me.text, Position(c), LabelAt(me.pc))
      tok == [me.tokens EXCEPT ![me.pc] = bit.val]
  IN  /\ me.pc \in {"seconds", "lnl", "tree_size"}
      /\ pcall' = [pcall EXCEPT ![c] =
           IF bit.status = "ParseException"
             THEN [me EXCEPT !.pc = "done", !.out = Raised("RaxmlError")]
           ELSE IF bit.status = "ValueError"
             THEN [me EXCEPT !.pc = "done", !.out = Raised("ValueError")]
           ELSE IF me.pc = "tree_size"
             THEN [me EXCEPT !.pc = "done", !.tokens = tok,
                     !.out = raxmlResult(tok.lnl, tok.tree_size, tok.seconds)]
           ELSE [me EXCEPT !.pc = IF me.pc = "seconds" THEN "lnl" ELSE "tree_size",
                           !.tokens = tok, !.loc = bit.loc]]
      /\ UNCHANGED <<parseVars, analyses, orchVars>>

\* the caller takes the outcome of its call
ParseEnd(c) ==
  /\ pcall[c].pc = "done"
  /\ pcall' = [pcall EXCEPT ![c] = IdleParse]
  /\ UNCHANGED <<parseVars, analyses, orchVars>>

\* ------------------------------------------------------------------------
\* Paths and names: a path is the sequence of its components, a component
\* (a name) is a sequence of characters and symbols
\* ------------------------------------------------------------------------

Root == <<"/">>

\* the working directory of the process
Cwd == <<Root, <<"w">>>>

\* os.path.split(p): the directory of p and its last component
split(p) == <<SubSeq(p, 1, Len(p) - 1), p[Len(p)]>>

\* os.path.join(dir, name)
join(dir, name) == Append(dir, name)

\* os.path.abspath(p)
abspath(p) == IF Len(p) > 0 /\ p[1] = Root THEN p ELSE Cwd \o p

\* os.path.splitext(file)[0]: the name up to its last '.', the whole name
\* when it has none or only leading ones
splitext(file) ==
  LET dots == {i \in 1..Len(file) : file[i] = "."}
      last == CHOOSE i \in dots : \A j \in dots : j <= i
  IN  IF dots = {} THEN file
      ELSE IF \E j \in 1..(last - 1) : file[j] # "." THEN SubSeq(file, 1, last - 1)
      ELSE file

\* an ID that leaves the model out
AnalysisIDNoModel(alignment_path, model) ==
  splitext(split(alignment_path)[2]) \o <<".", "t", "x", "t">>

\* raxml_analysis_ID: '%s_%s.txt' % (aln_name, model)
raxml_analysis_ID(alignment_path, model) ==
  splitext(split(alignment_path)[2]) \o <<"_">> \o model \o <<".", "t", "x", "t">>

\* make_output_path: (stats_path, tree_path)
make_output_path(alignment_path, model) ==
  LET analysis_ID == raxml_analysis_ID(alignment_path, model)
      dir == split(alignment_path)[1]
  IN  << join(dir, <<"RAxML_info.">> \o analysis_ID),
         join(dir, <<"RAxML_result.">> \o analysis_ID) >>

\* the models analyses are run with; a model is any string the caller passes
Models == { <<"G">>, <<"I">>, <<"b", "_", "G">> }

\* alignments of one directory, for the comparison of output names
NamedAlignments ==
  { <<Root, <<"d", "1">>, f>> :
      f \in { <<"a", ".", "p", "h", "y">>, <<"a", ".", "f", "a", "s">>,
              <<"a", "_", "b", ".", "p", "h", "y">>, <<"b", ".", "p", "h", "y">>,
              <<"a">> } }

\* make_output_path names the output files of one more analysis
NameOutputs ==
  /\ Cardinality(analyses) < MaxAnalyses
  /\ \E aln \in NamedAlignments, model \in Models :
       analyses' = analyses \cup
         {[aln |-> aln, model |-> model,
           id |-> raxml_analysis_ID(aln, model),
           out |-> make_output_path(aln, model)]}
  /\ UNCHANGED <<parseVars, pcall, orchVars>>

\* ------------------------------------------------------------------------
\* The command line: the text analyse formats and the arguments
\* shlex.split(command) makes of it for subprocess.Popen
\* ------------------------------------------------------------------------

\* the text of a path: its components joined by '/'
RECURSIVE PathText(_)
PathText(p) ==
  IF Len(p) = 0 THEN <<>>
  ELSE IF p[1] = Root THEN <<"/">> \o PathText(Tail(p))
  ELSE IF Len(p) = 1 THEN p[1]
  ELSE p[1] \o <<"/">> \o PathText(Tail(p))

\* '%s': a value between single quotes
Quoted(s) == <<"'">> \o s \o <<"'">>

\* get_model_commandline(model): the model given to the tool with -m (the
\* table that maps a model to its parameters is kept in raxml_models)
get_model_commandline(model) == <<"-", "m", " ">> \o model

\* analyse: bl, ' -f B ' or ' -f e '
BranchText(flag) == <<" ", "-", "f", " ", flag, " ">>

\* analyse: command = " %s -s '%s' -t '%s' %s -n %s -w '%s' " % (bl,
\* alignment_path, tree_path, model_params, analysis_ID, abspath(aln_dir))
AnalyseCommandLine(bl, alignment_path, tree_path, model_params, analysis_ID, dir) ==
  <<" ">> \o bl
    \o <<" ", "-", "s", " ">> \o Quoted(PathText(alignment_path))
    \o <<" ", "-", "t", " ">> \o Quoted(PathText(tree_path))
    \o <<" ">> \o model_params
    \o <<" ", "-", "n", " ">> \o analysis_ID
    \o <<" ", "-", "w", " ">> \o Quoted(PathText(dir))
    \o <<" ">>

NotQuote(c) == c # "'"

\* shlex.split(command): whitespace outside single quotes separates the
\* arguments, the quotes are taken off.  seps are the positions of the
\* separating whitespace (an even number of quotes before them), starts and
\* ends the first and last positions of the arguments
shlex_split(command) ==
  LET n == Len(command)
      quotes == {j \in 1..n : command[j] = "'"}
      seps == {i \in 1..n : /\ command[i] \in White
                            /\ Cardinality({j \in quotes : j < i}) % 2 = 0}
      starts == {i \in (1..n) \ seps : i = 1 \/ (i - 1) \in seps}
      ends == {i \in (1..n) \ seps : i = n \/ (i + 1) \in seps}
      kth(S, k) == CHOOSE i \in S : Cardinality({j \in S : j < i}) = k - 1
  IN  [k \in 1..Cardinality(starts) |->
         SelectSeq(SubSeq(command, kth(starts, k), kth(ends, k)), NotQuote)]

\* the argument the tool takes as the value of an option: the one that
\* follows the option in argv, None when the option is not given a value
OptionValue(argv, option) ==
  LET at == {i \in 1..(Len(argv) - 1) : argv[i] = option}
  IN  IF at = {} THEN None
      ELSE argv[(CHOOSE i \in at : \A j \in at : i <= j) + 1]

\* the arguments the tool is started with by analyse
AnalyseArgv(model, alignment_path, tree_path, flag) ==
  shlex_split(AnalyseCommandLine(BranchText(flag), alignment_path, tree_path,
                get_model_commandline(model),
                raxml_analysis_ID(alignment_path, model),
                abspath(split(alignment_path)[1])))

\* ------------------------------------------------------------------------
\* The command orchestrator
\* ------------------------------------------------------------------------

\* find_program: <the directory above the module>/programs/raxml
ProgramPath == <<Root, <<"programs">>, <<"raxml">>>>

\* the data types and branch-length modes callers pass, the known ones and
\* one the module does not know
DataTypes == {"DNA", "protein", "RNA"}
BranchModes == {"linked", "unlinked", "free"}

\* the alignments of the analyses: in a directory, in a relative directory,
\* in the working directory
AlignmentPaths ==
  { <<Root, <<"d", "1">>, <<"a", ".", "p", "h", "y">>>>,
    <<<<"d", "2">>, <<"a", ".", "f", "a", "s">>>>,
    <<<<"a", "_", "b", ".", "p", "h", "y">>>> }

\* the topologies and trees: the parsimony tree beside the first alignment,
\* a file already called topology_tree.phy, a tree in another directory
TreePaths ==
  { <<Root, <<"d", "1">>, <<"RAxML_parsimonyTree.MPTREE">>>>,
    <<Root, <<"d", "1">>, <<"topology_tree.phy">>>>,
    <<Root, <<"d", "3">>, <<"t", ".", "t", "r", "e">>>> }

\* the exit codes of the external process: success, failure
ExitCodes == {0, 1}

NoCommand == [f |-> "", s |-> None, t |-> None, m |-> <<>>, n |-> <<>>, w |-> None]

IdleCall ==
  [pc |-> "idle", op |-> "", aln |-> None, topo |-> None, datatype |-> "",
   model |-> <<>>, bl |-> "", srcWas |-> None, staged |-> "",
   command |-> NoCommand,
   cacheAtCheck |-> None, lookups |-> 0, binary |-> None,
   spawned |-> 0, proc |-> "none", returncode |-> 0,
   outcome |-> "none", ret |-> None]

\* a file system without files
NoFiles == [p \in {} |-> None]

\* the file system fs without the file at path p: os.remove(p)
Remove(fs, p) == [q \in DOMAIN fs \ {p} |-> fs[q]]

\* the file system fs with content written to path p
Write(fs, p, content) ==
  [q \in DOMAIN fs \cup {p} |-> IF q = p THEN content ELSE fs[q]]

OrchIdle ==
  /\ _raxml_binary = None
  /\ installed = FALSE
  /\ files = NoFiles
  /\ call = [c \in Callers |-> IdleCall]
  /\ ncalls = 0
  /\ nfinds = 0

\* os.path.exists(p)
exists(fs, p) == abspath(p) \in DOMAIN fs

\* dupfile(src, dst) on the files fs; denied: os.remove(dst) raises OSError.
\* exc is "ok", "RaxmlError" (the OSError caught) or "IOError" (raised by
\* shutil.copyfile when it opens a source that is not there; in Python 2
\* IOError is no OSError, so the except clause lets it through)
dupfile(fs, src, dst, denied) ==
  IF exists(fs, dst) /\ denied THEN [exc |-> "RaxmlError", files |-> fs]
  ELSE LET removed == Remove(fs, abspath(dst))
       IN  IF ~exists(removed, src) THEN [exc |-> "IOError", files |-> removed]
           ELSE [exc |-> "ok",
                 files |-> Write(removed, abspath(dst), removed[abspath(src)])]

\* the evaluation flag with every mode taken for 'unlinked' but 'linked'
LenientBranchFlag(branchlengths) ==
  IF branchlengths = "linked" THEN "B" ELSE "e"

\* analyse: bl, the evaluation flag of a branch-length mode; "raise" is the
\* else branch (raise RaxmlError)
BranchFlag(branchlengths) ==
  IF branchlengths = "linked" THEN "B"
  ELSE IF branchlengths = "unlinked" THEN "e"
  ELSE "raise"

\* the -m argument of make_topology for a data type; "raise" is the else
\* branch (raise RaxmlError)
TopologyModel(datatype) ==
  IF datatype = "DNA" THEN <<"GTRGAMMA">>
  ELSE IF datatype = "protein" THEN <<"PROTGAMMALG">>
  ELSE <<"raise">>

\* the call of caller c starts: it either goes on to run_raxml(command) or
\* ends at once with the exception exc
Enter(c, rec, command, exc) ==
  /\ call[c].pc = "idle"
  /\ ncalls < MaxCalls
  /\ ncalls' = ncalls + 1
  /\ call' = [call EXCEPT ![c] =
       IF exc = "" THEN [rec EXCEPT !.pc = "check", !.command = command]
       ELSE [rec EXCEPT !.pc = "done", !.outcome = exc]]

\* make_topology(alignment_path, datatype) up to its call of run_raxml
make_topology(c) ==
  \E aln \in AlignmentPaths, datatype \in DataTypes :
    LET rec == [IdleCall EXCEPT !.op = "make_topology", !.aln = aln,
                                !.datatype = datatype]
        m == TopologyModel(datatype)
        command == [f |-> "y", s |-> aln, t |-> None, m |-> m,
                    n |-> <<"MPTREE">>, w |-> abspath(split(aln)[1])]
    IN  /\ Enter(c, rec, command, IF m = <<"raise">> THEN "RaxmlError" ELSE "")
        /\ UNCHANGED <<parseVars, pcall, analyses, _raxml_binary, installed,
                       files, nfinds>>

\* make_branch_lengths(alignment_path, topology_path, datatype) up to its
\* call of run_raxml: the topology is staged, then the command is built for
\* DNA and for protein; any other data type runs nothing and goes on to return.
\* srcWas keeps what the topology file held when the call began, None when
\* there was no such file
make_branch_lengths(c) ==
  \E aln \in AlignmentPaths, topo \in TreePaths, datatype \in DataTypes,
     denied \in BOOLEAN :
    LET rec == [IdleCall EXCEPT !.op = "make_branch_lengths", !.aln = aln,
                                !.topo = topo, !.datatype = datatype,
                                !.srcWas = IF exists(files, topo)
                                             THEN files[abspath(topo)]
                                             ELSE None]
        dir_path == split(topo)[1]
        tree_path == join(dir_path, <<"topology_tree.phy">>)
        dup == dupfile(files, topo, tree_path, denied)
        staged == [rec EXCEPT !.staged = dup.exc]
        command == [f |-> "e", s |-> aln, t |-> tree_path,
                    m |-> IF datatype = "DNA" THEN <<"GTRGAMMA">>
                          ELSE <<"PROTGAMMALG">>,
                    n |-> <<"BLTREE">>, w |-> abspath(dir_path)]
    IN  /\ call[c].pc = "idle"
        /\ ncalls < MaxCalls
        /\ ncalls' = ncalls + 1
        /\ files' = dup.files
        /\ call' = [call EXCEPT ![c] =
             IF dup.exc # "ok" THEN [staged EXCEPT !.pc = "done", !.outcome = dup.exc]
             ELSE IF datatype \in {"DNA", "protein"}
               THEN [staged EXCEPT !.pc = "check", !.command = command]
             ELSE [staged EXCEPT !.pc = "ran"]]
        /\ UNCHANGED <<parseVars, pcall, analyses, _raxml_binary, installed, nfinds>>

\* analyse(model, alignment_path, tree_path, branchlengths) up to its call of
\* run_raxml
analyse(c) ==
  \E model \in Models, aln \in AlignmentPaths, tree \in TreePaths,
     branchlengths \in BranchModes :
    LET rec == [IdleCall EXCEPT !.op = "analyse", !.aln = aln, !.topo = tree,
                                !.model = model, !.bl = branchlengths]
        bl == BranchFlag(branchlengths)
        command == [f |-> bl, s |-> aln, t |-> tree, m |-> model,
                    n |-> OptionValue(AnalyseArgv(model, aln, tree, bl), <<"-", "n">>),
                    w |-> abspath(split(aln)[1])]
    IN  /\ Enter(c, rec, command, IF bl = "raise" THEN "RaxmlError" ELSE "")
        /\ UNCHANGED <<parseVars, pcall, analyses, _raxml_binary, installed,
                       files, nfinds>>

\* a caller calls run_raxml(command) itself
run_raxml(c) ==
  /\ Enter(c, [IdleCall EXCEPT !.op = "run_raxml"],
           [NoCommand EXCEPT !.f = "v"], "")
  /\ UNCHANGED <<parseVars, pcall, analyses, _raxml_binary, installed,
                 files, nfinds>>

\* the test that always looks the binary up
AlwaysLookup(binary) == TRUE

\* run_raxml: if _raxml_binary is None
NeedsLookup(binary) == binary = None

\* run_raxml tests the cache
CheckBinary(c) ==
  /\ call[c].pc = "check"
  /\ call' = [call EXCEPT ![c].cacheAtCheck = _raxml_binary,
                          ![c].pc = IF NeedsLookup(_raxml_binary) THEN "find"
                                    ELSE "spawn"]
  /\ UNCHANGED <<parseVars, pcall, analyses, _raxml_binary, installed,
                 files, ncalls, nfinds>>

\* _raxml_binary = find_program(): the path when the binary is a file there,
\* RaxmlError when it is not (the global is then left as it was)
find_program(c) ==
  /\ call[c].pc = "find"
  /\ nfinds' = nfinds + 1
  /\ IF installed
       THEN /\ _raxml_binary' = ProgramPath
            /\ call' = [call EXCEPT ![c].lookups = @ + 1, ![c].pc = "spawn"]
       ELSE /\ call' = [call EXCEPT ![c].lookups = @ + 1, ![c].pc = "done",
                                    ![c].outcome = "RaxmlError"]
            /\ UNCHANGED _raxml_binary
  /\ UNCHANGED <<parseVars, pcall, analyses, installed, files, ncalls>>

\* subprocess.Popen: the external process is started
Popen(c) ==
  /\ call[c].pc = "spawn"
  /\ call' = [call EXCEPT ![c].spawned = @ + 1, ![c].binary = _raxml_binary,
                          ![c].proc = "running", ![c].pc = "wait"]
  /\ UNCHANGED <<parseVars, pcall, analyses, _raxml_binary, installed,
                 files, ncalls, nfinds>>

\* the external process exits
ProcessExit(c) ==
  /\ call[c].proc = "running"
  /\ \E code \in ExitCodes :
       call' = [call EXCEPT ![c].proc = "exited", ![c].returncode = code]
  /\ UNCHANGED <<parseVars, pcall, analyses, _raxml_binary, installed,
                 files, ncalls, nfinds>>

\* a failure test that sees only the exit codes of signals
KilledOnly(returncode) == returncode < 0

\* run_raxml: if p.returncode != 0
ExitFailed(returncode) == returncode # 0

\* p.communicate() returns once the process has exited; run_raxml raises
\* RaxmlError on a failed exit and returns otherwise
communicate(c) ==
  /\ call[c].pc = "wait"
  /\ call[c].proc = "exited"
  /\ call' = [call EXCEPT ![c] =
       IF ExitFailed(call[c].returncode)
         THEN [@ EXCEPT !.pc = "done", !.outcome = "RaxmlError"]
         ELSE [@ EXCEPT !.pc = "ran"]]
  /\ UNCHANGED <<parseVars, pcall, analyses, _raxml_binary, installed,
                 files, ncalls, nfinds>>

\* the tree path an operation returns: make_topology and make_branch_lengths
\* return a path in the directory of the alignment, the others None
ReturnValue(op, alignment_path) ==
  IF op = "make_topology"
    THEN join(split(alignment_path)[1], <<"RAxML_parsimonyTree.MPTREE">>)
  ELSE IF op = "make_branch_lengths"
    THEN join(split(alignment_path)[1], <<"RAxML_result.BLTREE">>)
  ELSE None

\* the operation returns to its caller
Return(c) ==
  /\ call[c].pc = "ran"
  /\ call' = [call EXCEPT ![c].pc = "done", ![c].outcome = "returned",
                          ![c].ret = ReturnValue(call[c].op, call[c].aln)]
  /\ UNCHANGED <<parseVars, pcall, analyses, _raxml_binary, installed,
                 files, ncalls, nfinds>>

\* the caller has taken the outcome and is free for its next call
NextCall(c) ==
  /\ call[c].pc = "done"
  /\ call' = [call EXCEPT ![c] = IdleCall]
  /\ UNCHANGED <<parseVars, pcall, analyses, _raxml_binary, installed,
                 files, ncalls, nfinds>>

\* ------------------------------------------------------------------------
\* The output files of the analyses and their removal
\* ------------------------------------------------------------------------

\* the alignments analysed: four of one directory, one of them with a name
\* of two words, and one given by a relative path
FileAlignments ==
  { <<Root, <<"d", "1">>, <<"a", ".", "p", "h", "y">>>>,
    <<Root, <<"d", "1">>, <<"a", "a", ".", "p", "h", "y">>>>,
    <<Root, <<"d", "1">>, <<"b", ".", "p", "h", "y">>>>,
    <<Root, <<"d", "1">>, <<"a", " ", "b", ".", "p", "h", "y">>>>,
    <<<<"c", ".", "p", "h", "y">>>> }

\* the models they are analysed with
FileModels == { <<"G">>, <<"I">> }

\* the directories of the file system
Directories == {abspath(split(aln)[1]) : aln \in FileAlignments}

\* the file system before any analysis: the alignments, each holding its own
\* data
AlignmentFiles ==
  [p \in {abspath(aln) : aln \in FileAlignments} |-> <<split(p)[2]>>]

\* the files the external tool writes when started with argv: RAxML_info.<n>
\* and RAxML_result.<n> in the directory given with -w, <n> the value given
\* with -n
ToolOutputs(argv) ==
  LET n == OptionValue(argv, <<"-", "n">>)
      w == OptionValue(argv, <<"-", "w">>)
      dir == CHOOSE d \in Directories : PathText(d) = w
  IN  {join(dir, <<"RAxML_info.">> \o n), join(dir, <<"RAxML_result.">> \o n)}

\* the data a file written for an analysis holds
OwnContent(aln_path, model) == <<split(aln_path)[2], model>>

RECURSIVE WriteAll(_, _, _)
\* the file system fs with content written to every path of ps
WriteAll(fs, ps, content) ==
  IF ps = {} THEN fs
  ELSE LET p == CHOOSE q \in ps : TRUE
       IN  WriteAll(Write(fs, p, content), ps \ {p}, content)

\* analyse(model, alignment_path, tree_path, branchlengths) runs to its end:
\* the binary is found, the tool is started with the command, writes its
\* output files and exits with 0
RunAnalysis ==
  \E model \in FileModels, aln \in FileAlignments,
     branchlengths \in {"linked", "unlinked"} :
    LET tree_path == join(split(aln)[1], <<"RAxML_result.BLTREE">>)
        argv == AnalyseArgv(model, aln, tree_path, BranchFlag(branchlengths))
        wrote == ToolOutputs(argv)
        run == [aln |-> aln, model |-> model,
                id |-> raxml_analysis_ID(aln, model),
                out |-> make_output_path(aln, model),
                n |-> OptionValue(argv, <<"-", "n">>),
                wrote |-> wrote]
    IN  /\ Cardinality(analyses \cup {run}) <= MaxAnalyses
        /\ analyses' = analyses \cup {run}
        /\ files' = WriteAll(files, wrote, OwnContent(aln, model))
        /\ UNCHANGED <<parseVars, pcall, _raxml_binary, installed, call,
                       ncalls, nfinds>>

\* fnmatch.fnmatch(name, '*%s*' % analysis_ID): the ID occurs in the name
fnmatch(name, analysis_ID) ==
  \E i \in 0..(Len(name) - Len(analysis_ID)) :
    SubSeq(name, i + 1, i + Len(analysis_ID)) = analysis_ID

\* os.listdir(dir)
listdir(fs, dir) == {split(p)[2] : p \in {q \in DOMAIN fs : split(q)[1] = dir}}

\* the file system after remove_files(aln_path, model)
FilesRemoved(fs, aln_path, model) ==
  LET analysis_ID == raxml_analysis_ID(aln_path, model)
      dir == abspath(split(aln_path)[1])
      matched == {f \in listdir(fs, dir) : fnmatch(f, analysis_ID)}
  IN  [q \in DOMAIN fs \ {join(dir, f) : f \in matched} |-> fs[q]]

\* remove_files(aln_path, model)
remove_files(aln_path, model) ==
  /\ files' = FilesRemoved(files, aln_path, model)
  /\ UNCHANGED <<parseVars, pcall, analyses, _raxml_binary, installed, call,
                 ncalls, nfinds>>

\* a caller cleans up after one of the analyses
Cleanup ==
  \E aln \in FileAlignments, model \in FileModels : remove_files(aln, model)

\* ------------------------------------------------------------------------
\* Specifications
\* ------------------------------------------------------------------------

\* the parser on the reports of the external tool
ParseInit == ParserIdle /\ ReentrantIdle /\ NamesIdle /\ OrchIdle

ParseNext == Emit \/ Parse

SpecParse == ParseInit /\ [][ParseNext]_vars

\* the_parser shared by the callers
ReentrantNext ==
  \E c \in Callers : ParseBegin(c) \/ ParseStep(c) \/ ParseEnd(c)

SpecReentrant == ParseInit /\ [][ReentrantNext]_vars

\* the naming of output files
SpecNames == ParseInit /\ [][NameOutputs]_vars

\* the environment of the orchestrator: the binary is installed or not, any
\* of the trees exists or not; the content of a tree that exists is named
\* after the path it is first found at
OrchInit ==
  /\ ParserIdle /\ ReentrantIdle /\ NamesIdle
  /\ _raxml_binary = None
  /\ installed \in BOOLEAN
  /\ files \in {[p \in D |-> p] : D \in SUBSET TreePaths}
  /\ call = [c \in Callers |-> IdleCall]
  /\ ncalls = 0
  /\ nfinds = 0

\* the steps of run_raxml and the end of a call
RunSteps(c) ==
  \/ CheckBinary(c)
  \/ find_program(c)
  \/ Popen(c)
  \/ ProcessExit(c)
  \/ communicate(c)
  \/ Return(c)
  \/ NextCall(c)

\* the analysis phases, called one after the other by the main thread
OrchNext ==
  \/ make_topology(MainCaller)
  \/ make_branch_lengths(MainCaller)
  \/ analyse(MainCaller)
  \/ RunSteps(MainCaller)

SpecOrch == OrchInit /\ [][OrchNext]_vars

\* run_raxml called by concurrent callers
CacheNext == \E c \in Callers : run_raxml(c) \/ RunSteps(c)

SpecCache == OrchInit /\ [][CacheNext]_vars

\* analyses run and cleaned up after, in a file system that holds the
\* alignments
FilesInit ==
  /\ ParserIdle /\ ReentrantIdle /\ NamesIdle
  /\ _raxml_binary = None
  /\ installed = TRUE
  /\ files = AlignmentFiles
  /\ call = [c \in Callers |-> IdleCall]
  /\ ncalls = 0
  /\ nfinds = 0

FilesNext == RunAnalysis \/ Cleanup

SpecFiles == FilesInit /\ [][FilesNext]_vars

\* ------------------------------------------------------------------------
\* Properties of the result parser (SpecParse, SpecReentrant)
\* ------------------------------------------------------------------------

\* a well-formed numeric literal: an optional '-', digits, and optionally a
\* '.' with digits after it
WellFormed(lit) ==
  LET body == IF Len(lit) > 0 /\ lit[1] = "-" THEN Tail(lit) ELSE lit
      dots == {i \in 1..Len(body) : body[i] = "."}
  IN  /\ Len(body) > 0
      /\ \A i \in 1..Len(body) : body[i] \in nums \cup {"."}
      /\ Cardinality(dots) <= 1
      /\ body[1] \in nums
      /\ body[Len(body)] \in nums

\* the number each well-formed literal of Tails denotes, as num/den
LiteralValue(lit) ==
  CASE lit = <<"1">> -> <<1, 1>>
    [] lit = <<"-", "1", ".", "2">> -> <<0 - 12, 10>>
    [] lit = <<"2", "0", ".", "5">> -> <<205, 10>>
    [] lit = <<"1", ".", "2">> -> <<12, 10>>
    [] OTHER -> NoVal

\* the three labels in the order elapsed time, log-likelihood, tree length,
\* each once
OrderedOnce(r) ==
  /\ Len(r) = 3
  /\ r[1].label \in TIME_LABEL
  /\ r[2].label \in LNL_LABEL
  /\ r[3].label \in TREE_SIZE_LABEL

\* ... each followed by a well-formed literal
ValidReport(r) ==
  /\ OrderedOnce(r)
  /\ \A i \in 1..3 : WellFormed(r[i].tail.lit)

\* the result whose fields are the literals that follow the labels
Expected(r) ==
  raxmlResult(LiteralValue(r[2].tail.lit), LiteralValue(r[3].tail.lit),
              LiteralValue(r[1].tail.lit))

\* no junk that directly follows a literal begins with a digit, '.' or '-'
JunkSeparated(r) ==
  \A i \in 1..Len(r) :
    \/ r[i].tail.junk = <<>>
    \/ r[i].tail.junk[1] \notin {"0", "1", "2", "3", "4", "5", "6", "7", "8", "9", ".", "-"}

\* C1 as stated: parse of a report with the three labels in order, each once
\* and each followed by a well-formed literal, returns the three literals,
\* whatever the junk around them and whichever spelling of the labels
C1_AnyJunk ==
  (result # NoResult /\ ValidReport(report)) => result = Expected(report)

\* C1 as amended: the same, for reports in which the junk that directly
\* follows a literal does not begin with a digit, '.' or '-'
C1_SeparatedJunk ==
  (result # NoResult /\ ValidReport(report) /\ JunkSeparated(report))
    => result = Expected(report)

\* a report spelled with the second time and likelihood labels, with junk
\* right after a literal and junk after a blank, has been parsed to a result
C1_Witness ==
  /\ ValidReport(report) /\ JunkSeparated(report)
  /\ report[1].label = "T2" /\ report[2].label = "L2"
  /\ report[1].tail.junk = <<"x">> /\ report[2].tail.junk = <<" ", "x">>
  /\ result.kind = "raxmlResult"
  /\ result.lnl # result.seconds

\* the labels of a report hold the three in order: some elapsed-time label
\* before some likelihood label before some tree-length label
InOrder(r) ==
  \E i, j, k \in 1..Len(r) :
    /\ i < j /\ j < k
    /\ r[i].label \in TIME_LABEL
    /\ r[j].label \in LNL_LABEL
    /\ r[k].label \in TREE_SIZE_LABEL

\* C2: parse of a report in which a label is missing or the labels are not
\* in the order elapsed time, log-likelihood, tree length fails with
\* RaxmlError
C2_MissingLabelRaxmlError ==
  (result # NoResult /\ ~InOrder(report)) => result.kind = "RaxmlError"

\* C3: parse of a report with the three labels in order, each followed by a
\* token of digits, '.' and '-', one of them malformed, fails with RaxmlError
\* and with no other exception
C3_MalformedRaxmlError ==
  ( /\ result # NoResult
    /\ OrderedOnce(report)
    /\ \A i \in 1..3 : Len(report[i].tail.lit) > 0
    /\ \E i \in 1..3 : ~WellFormed(report[i].tail.lit) )
    => result.kind = "RaxmlError"

Phases == {"make_topology", "make_branch_lengths", "analyse"}

Failures == {"RaxmlError", "IOError"}

\* the directory a path lies in
DirOf(p) == abspath(split(p)[1])

\* the call's data type and branch-length mode are ones the module knows,
\* and the topology of make_branch_lengths was there and has been staged
ValidInput(k) ==
  \/ k.op = "make_topology" /\ k.datatype \in {"DNA", "protein"}
  \/ k.op = "make_branch_lengths" /\ k.datatype \in {"DNA", "protein"}
       /\ k.staged = "ok"
  \/ k.op = "analyse" /\ k.bl \in {"linked", "unlinked"}

\* C4: analyse with a branch-length mode other than 'linked' and 'unlinked'
\* ends with RaxmlError and never enters run_raxml: no lookup of the binary,
\* no process.  (analyse takes no data type.)
C4_BadModeNoSpawn ==
  \A c \in Callers :
    (call[c].op = "analyse" /\ call[c].bl \notin {"linked", "unlinked"})
      => /\ call[c].pc = "done"
         /\ call[c].outcome = "RaxmlError"
         /\ call[c].command = NoCommand
         /\ call[c].lookups = 0
         /\ call[c].spawned = 0
         /\ call[c].proc = "none"

\* analyse was called with the mode 'free' and has ended
C4_Witness ==
  \E c \in Callers :
    /\ call[c].op = "analyse" /\ call[c].bl = "free"
    /\ call[c].pc = "done" /\ call[c].outcome = "RaxmlError"

\* C5: make_topology and make_branch_lengths called with a data type other
\* than 'DNA' and 'protein' end in a failure, never in a returned tree path.
\* (The claim names RaxmlError; the formula asks only for a failure, so what
\* violates it is a data type swallowed.)
C5_BadDataTypeFails ==
  \A c \in Callers :
    ( /\ call[c].op \in {"make_topology", "make_branch_lengths"}
      /\ call[c].datatype \notin {"DNA", "protein"}
      /\ call[c].pc = "done" )
      => call[c].outcome \in Failures

\* C6 as stated: a call with valid input that has ended has spawned exactly
\* one process, which has exited; it ended with RaxmlError if the exit code
\* is not zero and returned normally if it is
C6_ExactlyOneProcess ==
  \A c \in Callers :
    (ValidInput(call[c]) /\ call[c].pc = "done")
      => /\ call[c].spawned = 1
         /\ call[c].proc = "exited"
         /\ call[c].returncode # 0 => call[c].outcome = "RaxmlError"
         /\ call[c].returncode = 0 => call[c].outcome = "returned"

\* C6 as amended: a call with valid input spawns at most one process: none
\* when the binary is not found, and the call then ends with RaxmlError,
\* exactly one when it is; having spawned one, the call goes on only after
\* the process has exited, ends with RaxmlError if the exit code is not zero
\* and returns normally if it is
C6_AtMostOneProcess ==
  \A c \in Callers :
    ValidInput(call[c])
      => /\ call[c].spawned <= 1
         /\ (call[c].pc = "done" /\ call[c].spawned = 0)
              => (~installed /\ call[c].outcome = "RaxmlError")
         /\ (call[c].pc = "done" /\ installed) => call[c].spawned = 1
         /\ (call[c].pc \in {"ran", "done"} /\ call[c].spawned = 1)
              => call[c].proc = "exited"
         /\ (call[c].pc = "done" /\ call[c].spawned = 1)
              => /\ call[c].returncode # 0 => call[c].outcome = "RaxmlError"
                 /\ call[c].returncode = 0 => call[c].outcome = "returned"

\* make_branch_lengths with valid input has ended with RaxmlError after its
\* one process exited with a code that is not zero
C6_Witness ==
  \E c \in Callers :
    /\ call[c].op = "make_branch_lengths" /\ ValidInput(call[c])
    /\ call[c].pc = "done" /\ call[c].spawned = 1
    /\ call[c].proc = "exited" /\ call[c].returncode # 0
    /\ call[c].outcome = "RaxmlError"

\* C7: a phase that starts the external tool tells it (-w) to write into the
\* directory of the alignment, and the tree path a phase returns lies in
\* that directory
C7_WritesBesideAlignment ==
  \A c \in Callers :
    call[c].op \in Phases
      => /\ call[c].spawned > 0 => call[c].command.w = DirOf(call[c].aln)
         /\ (call[c].outcome = "returned" /\ call[c].ret # None)
              => DirOf(call[c].ret) = DirOf(call[c].aln)

\* a model name without '_'
Plain(model) == \A i \in 1..Len(model) : model[i] # "_"

\* the output files of an analysis
OutputFiles(a) == {a.out[1], a.out[2]}

\* C8 as stated: analyses of one directory whose (alignment file name,
\* model) pairs differ have different analysis IDs and no output file in
\* common
C8_DistinctFileNames ==
  \A a, b \in analyses :
    (split(a.aln)[2] # split(b.aln)[2] \/ a.model # b.model)
      => /\ a.id # b.id
         /\ OutputFiles(a) \cap OutputFiles(b) = {}

\* C8 as amended: analyses of one directory whose (alignment name without
\* its extension, model) pairs differ, the models holding no '_', have
\* different analysis IDs and no output file in common
C8_DistinctBaseNames ==
  \A a, b \in analyses :
    ( /\ Plain(a.model) /\ Plain(b.model)
      /\ \/ splitext(split(a.aln)[2]) # splitext(split(b.aln)[2])
         \/ a.model # b.model )
      => /\ a.id # b.id
         /\ OutputFiles(a) \cap OutputFiles(b) = {}

\* two analyses of the same alignment with different models are named, and
\* their IDs differ
C8_Witness ==
  \E a, b \in analyses :
    /\ Plain(a.model) /\ Plain(b.model)
    /\ a.aln = b.aln /\ a.model # b.model
    /\ a.id # b.id

\* C10 as stated: find_program runs at most once in the life of the process
C10_OneLookup == nfinds <= 1

\* C10 as amended: a call of run_raxml that finds the cache set does not
\* look the binary up and starts the cached path; a call looks up at most
\* once; the cache holds nothing or the path find_program found, and holds
\* the path from the first successful lookup on
C10_CachedOnceFound ==
  /\ _raxml_binary \in {None, ProgramPath}
  /\ (installed /\ nfinds > 0) => _raxml_binary = ProgramPath
  /\ \A c \in Callers :
       /\ call[c].lookups <= 1
       /\ call[c].cacheAtCheck # None => call[c].lookups = 0
       /\ call[c].spawned > 0 => call[c].binary = ProgramPath

\* a call has started the binary from the cache, without a lookup of its
\* own, after another call looked it up
C10_Witness ==
  \E c \in Callers :
    /\ call[c].cacheAtCheck = ProgramPath
    /\ call[c].lookups = 0
    /\ call[c].spawned = 1
    /\ nfinds = 1

\* ------------------------------------------------------------------------
\* Properties of the output files (SpecFiles)
\* ------------------------------------------------------------------------

\* C11: for every analysis run, the suffix analyse gave the tool with -n is
\* the analysis ID, the files the tool wrote are the stats path and the tree
\* path make_output_path returns, RAxML_info.<ID> and RAxML_result.<ID> in
\* the directory of the alignment, and the pattern of remove_files matches
\* them
C11_OutputPathIsWritten ==
  \A a \in analyses :
    /\ a.n = a.id
    /\ a.out = << join(split(a.aln)[1], <<"RAxML_info.">> \o a.id),
                  join(split(a.aln)[1], <<"RAxML_result.">> \o a.id) >>
    /\ a.wrote = {abspath(a.out[1]), abspath(a.out[2])}
    /\ \A p \in a.wrote : fnmatch(split(p)[2], a.id)

\* C12: remove_files(aln_path, model) removes only files of that analysis:
\* every file of the alignment's directory that holds anything else, the
\* output of an analysis of another alignment or with another model or an
\* alignment, is still there after the call, with the content it had
C12_RemovesOnlyOwnFiles ==
  [][\A aln \in FileAlignments, model \in FileModels :
       remove_files(aln, model) =>
         \A p \in DOMAIN files :
           (split(p)[1] = DirOf(aln) /\ files[p] # OwnContent(aln, model))
             => (p \in DOMAIN files' /\ files'[p] = files[p])]_vars

\* ------------------------------------------------------------------------
\* Properties of the staging of the topology (SpecOrch)
\* ------------------------------------------------------------------------

\* make_branch_lengths: tree_path, the path the topology is staged at
StagedPath(topology_path) ==
  abspath(join(split(topology_path)[1], <<"topology_tree.phy">>))

\* C13: a call of make_branch_lengths has staged its topology with one of
\* two outcomes: the staged path holds what the topology file held, or the
\* call has ended with RaxmlError without a process started; and in both
\* the topology file is still there with the content it had
C13_StagedOrRaxmlError ==
  \A c \in Callers :
    call[c].op = "make_branch_lengths"
      => /\ \/ /\ call[c].staged = "ok"
               /\ call[c].srcWas # None
               /\ StagedPath(call[c].topo) \in DOMAIN files
               /\ files[StagedPath(call[c].topo)] = call[c].srcWas
            \/ /\ call[c].staged = "RaxmlError"
               /\ call[c].pc = "done"
               /\ call[c].outcome = "RaxmlError"
               /\ call[c].spawned = 0
         /\ call[c].srcWas # None
              => /\ abspath(call[c].topo) \in DOMAIN files
                 /\ files[abspath(call[c].topo)] = call[c].srcWas

====
